---------------------------- MODULE Spec2Model ----------------------------
(***************************************************************************)
(* A model of tixlbase/models.py:                                          *)
(*   - the clone-on-write versioning of Versionable.clone_shallow, run     *)
(*     sequentially (SpecSeq) and by concurrent workers (Spec);            *)
(*   - the variation engine Item.get_all_variations, applied to the        *)
(*     tables an item can have (SpecVar) and between writes to them        *)
(*     (SpecEdit);                                                         *)
(*   - save() and delete() of Item (SpecItem) and of the other models an   *)
(*     event owns (SpecOwned), with the cache of the event;                *)
(*   - User.save (SpecUser);                                               *)
(*   - the quota ledger over the Quota and CartPosition models, with the   *)
(*     locks of the backend and the degraded mode (SpecQuota,              *)
(*     SpecQuotaFair with a fair reaper).                                  *)
(* Dates are integers, None is NoDate; primary keys are integers, None is  *)
(* NoKey.                                                                  *)
(***************************************************************************)
EXTENDS Integers, Sequences, FiniteSets, TLC

(* ------------------------------ bounds -------------------------------- *)
NumIdentities == 2
MaxClones == 2
MaxTime == 2
NumWorkers == 2
MaxProps == 2
MaxValues == 4
MaxVariations == 2
MaxPosition == 1
MaxWrites == 6
NumEvents == 2
MaxOwnedWrites == 3
MaxStrLen == 2
NumQuotas == 2
MaxSize == 1
NumItems == 1
NumVariations == 1
MaxCount == 1
MaxCarts == 2
MaxRequests == 3
NumProcesses == 2
MaxLedgerTime == 1

VARIABLES
    \* the temporal store
    rows,             \* the stored rows of one Versionable model
    now,              \* the clock
    nextId,           \* the next key uuid4 hands out
    outcome,          \* what the last clone_shallow call was given and did
    inst,             \* per worker: the instance in memory (self)
    later,            \* per worker: later_version
    pc,               \* per worker: where in clone_shallow it is
    \* the variation engine
    properties,       \* item.properties.all(): Property identities
    prop_values,      \* the PropertyValue table, in the order the store scans it
    item_variations,  \* item.variations.all(): the ItemVariation rows
    memo,             \* item._get_all_variations_cache
    call,             \* the last get_all_variations call and what it returned
    writes,           \* the number of writes made
    cache,            \* per event: the keys in the event's cache
    \* the entities an event owns
    effect,           \* the last save() or delete() and its side effects
    owned,            \* the stored rows of the models other than Item
    \* users
    user,             \* a User instance in memory
    user_call,        \* the last User.save(): the instance given, the error
    \* the quota ledger
    quotas,           \* per quota: size, items, variations
    lock_cache,       \* per quota: the cart positions counted against it
    order_cache,      \* per quota: the order positions counted against it
    carts,            \* the CartPosition rows and what became of each
    held,             \* per lock space and quota: the lock and its holder
    req               \* per worker: its reservation request

storeVars == <<rows, now, nextId, outcome, inst, later, pc>>
varVars == <<properties, prop_values, item_variations, memo, call, writes, cache>>
userVars == <<user, user_call>>
quotaVars == <<quotas, lock_cache, order_cache, carts, held, req>>
restVars == <<owned, userVars, quotaVars>>
extVars == <<effect, owned, user, user_call, quotaVars>>
vars == <<rows, now, nextId, outcome, inst, later, pc,
          properties, prop_values, item_variations, memo, call, writes, cache,
          effect, owned, user, user_call,
          quotas, lock_cache, order_cache, carts, held, req>>

(* --------------------------- temporal store --------------------------- *)
\* version_end_date = None (line 44), forced_version_date = None (line 23)
NoDate == -1
\* an instance that was never saved: "not self.pk" (line 29)
NoKey == 0

Identities == 1..NumIdentities
Times == 0..MaxTime
Workers == 1..NumWorkers
LastKey == NumIdentities + MaxClones

NoError == "none"
ErrUnsaved == "Instance must be saved before it can be cloned"
ErrHistorical == "This is a historical item and can not be cloned."
ErrDate == "The clone date must be between the version start date and now."
\* the database refuses a second row with the value of a unique column
ErrIntegrity == "IntegrityError"

\* slug of a model without a unique column (every model but Organizer)
NoSlug == 0

\* An instance of a Versionable model that was constructed and not saved.
Unsaved ==
    [id |-> NoKey, identity |-> NoKey, version_start_date |-> 0,
     version_end_date |-> NoDate, active |-> TRUE, deleted |-> FALSE,
     slug |-> NoSlug]

\* The row a create() at time 0 stores: id = identity, an open interval.
Created(i, a) ==
    [id |-> i, identity |-> i, version_start_date |-> 0,
     version_end_date |-> NoDate, active |-> a, deleted |-> FALSE,
     slug |-> NoSlug]

\* The row of an Organizer created at time 0: slug is a unique column, and
\* the organizers created have slugs of their own.
CreatedOrganizer(i) == [Created(i, TRUE) EXCEPT !.slug = i]

\* The checks of clone_shallow, in the order of the code.
CloneError(self, at, utcnow) ==
    IF self.id = NoKey THEN ErrUnsaved
    ELSE IF self.version_end_date # NoDate THEN ErrHistorical
    ELSE IF at # NoDate
            /\ ~(self.version_start_date <= at /\ at <= utcnow) THEN ErrDate
    ELSE NoError

\* forced_version_date after lines 35-39.
ForcedVersionDate(at, utcnow) == IF at # NoDate THEN at ELSE utcnow

\* LaterVersion without the assignment of version_start_date.
LaterVersion_KeepsStart(self, date) ==
    [self EXCEPT !.version_end_date = NoDate]

\* later_version: a copy of self taken before self is re-keyed (lines 43-45).
LaterVersion(self, date) ==
    [self EXCEPT !.version_end_date = NoDate, !.version_start_date = date]

\* EarlierVersion without the new uuid.
EarlierVersion_NoRekey(self, date, uuid) ==
    [self EXCEPT !.version_end_date = date]

\* earlier_version: self under a new uuid, its interval closed (lines 50-51).
EarlierVersion(self, date, uuid) ==
    [self EXCEPT !.id = uuid, !.version_end_date = date]

\* The write of obj is refused: another row has its value of the unique
\* column (slug = models.CharField(unique=True), lines 199-201).
SaveError(table, obj) ==
    IF obj.slug # NoSlug
       /\ \E r \in table : r.id # obj.id /\ r.slug = obj.slug
    THEN ErrIntegrity ELSE NoError

\* Model.save(): UPDATE the row with this primary key, INSERT when there is
\* none; a refused write raises and leaves the table as it was.
Save(table, obj) ==
    IF SaveError(table, obj) # NoError THEN table
    ELSE {r \in table : r.id # obj.id} \cup {obj}

NoCall == [op |-> "none", err |-> NoError, self |-> Unsaved, at |-> NoDate,
           ret |-> Unsaved]

\* No save() or delete() was the last step.
NoEffect ==
    [op |-> "none", kind |-> "none", self |-> Unsaved, event |-> 0,
     trace |-> <<>>]

\* The clock get_utc_now() reads.
Tick ==
    /\ now < MaxTime
    /\ now' = now + 1
    /\ outcome' = NoCall
    /\ UNCHANGED <<rows, nextId, inst, later, pc>>
    /\ effect' = NoEffect
    /\ UNCHANGED <<varVars, restVars>>

\* clone_shallow(forced_version_date = at) on self, run to its end: a
\* check that fails raises before anything is written, and a save() that
\* the database refuses raises before the next one.
CloneShallow(self, at) ==
    LET err == CloneError(self, at, now)
        date == ForcedVersionDate(at, now)
        earlier_version == EarlierVersion(self, date, nextId)
        later_version == LaterVersion(self, date)
        first == Save(rows, earlier_version)
        err_earlier == SaveError(rows, earlier_version)
        err_later == SaveError(first, later_version)
    IN  /\ IF err # NoError
           THEN /\ rows' = rows
                /\ nextId' = nextId
                /\ outcome' = [op |-> "clone", err |-> err, self |-> self,
                               at |-> at, ret |-> Unsaved]
           ELSE /\ nextId <= LastKey
                /\ nextId' = nextId + 1
                /\ IF err_earlier # NoError
                   THEN /\ rows' = rows
                        /\ outcome' = [op |-> "clone", err |-> err_earlier,
                                       self |-> self, at |-> at,
                                       ret |-> Unsaved]
                   ELSE IF err_later # NoError
                   THEN /\ rows' = first
                        /\ outcome' = [op |-> "clone", err |-> err_later,
                                       self |-> self, at |-> at,
                                       ret |-> Unsaved]
                   ELSE /\ rows' = Save(first, later_version)
                        /\ outcome' = [op |-> "clone", err |-> NoError,
                                       self |-> self, at |-> at,
                                       ret |-> later_version]
        /\ UNCHANGED <<now, inst, later, pc>>
        /\ effect' = NoEffect
        /\ UNCHANGED <<varVars, restVars>>

\* None, where a string or an event is expected; a string is the sequence
\* of its characters.
None == <<"None">>
NoEvent == [str |-> FALSE, text |-> None]

\* User(): the fields a constructor call without arguments leaves.
NewUser ==
    [pk |-> NoKey, identifier |-> <<>>, email |-> None, username |-> None,
     event |-> NoEvent]

NoUserCall == [op |-> "none", err |-> NoError, self |-> NewUser]

NoWorker == 0
NoRequest ==
    [pc |-> "idle", item |-> 0, variation |-> 0, count |-> 0,
     guard |-> 0, tokens |-> {}, results |-> <<>>]

\* No quota, no cart position, no reservation request.
InitLedger ==
    /\ quotas = <<>>
    /\ lock_cache = <<>>
    /\ order_cache = <<>>
    /\ carts = <<>>
    /\ held = <<>>
    /\ req = [w \in Workers |-> NoRequest]

InitExt ==
    /\ effect = NoEffect
    /\ owned = {}
    /\ user = NewUser
    /\ user_call = NoUserCall
    /\ InitLedger

InitStore ==
    /\ \E act \in [Identities -> BOOLEAN] :
          \E organizer \in [Identities -> BOOLEAN] :
             rows = {IF organizer[i] THEN CreatedOrganizer(i)
                     ELSE Created(i, act[i]) : i \in Identities}
    /\ now = 0
    /\ nextId = NumIdentities + 1
    /\ outcome = NoCall
    /\ inst = [w \in Workers |-> Unsaved]
    /\ later = [w \in Workers |-> Unsaved]
    /\ pc = [w \in Workers |-> "idle"]
    /\ properties = <<>>
    /\ prop_values = <<>>
    /\ item_variations = <<>>
    /\ memo = [set |-> FALSE, result |-> <<>>]
    /\ call = [op |-> "none", use_cache |-> FALSE, ret |-> <<>>]
    /\ writes = 0
    /\ cache = [e \in 1..NumEvents |-> {}]
    /\ InitExt

NextSeq ==
    \/ Tick
    \/ \E self \in rows \cup {Unsaved} : \E at \in {NoDate} \cup Times :
          CloneShallow(self, at)

SpecSeq == InitStore /\ [][NextSeq]_vars

(* ------------------------- concurrent workers ------------------------- *)
\* A worker fetches a stored row into memory (the self of a later call).
Load(w, r) ==
    /\ pc[w] = "idle"
    /\ r \in rows
    /\ inst[w] # r
    /\ inst' = [inst EXCEPT ![w] = r]
    /\ UNCHANGED <<rows, now, nextId, outcome, later, pc>>
    /\ effect' = NoEffect
    /\ UNCHANGED <<varVars, restVars>>

\* clone_shallow up to the first save (lines 29-51): the checks, the copy
\* and the re-keying, all on the worker's instance in memory. A refused call
\* raises and changes nothing.
CloneBegin(w, at) ==
    LET self == inst[w]
        date == ForcedVersionDate(at, now)
    IN  /\ pc[w] = "idle"
        /\ IF CloneError(self, at, now) # NoError
           THEN UNCHANGED <<inst, later, pc, nextId>>
           ELSE /\ nextId <= LastKey
                /\ later' = [later EXCEPT ![w] = LaterVersion(self, date)]
                /\ inst' = [inst EXCEPT
                              ![w] = EarlierVersion(self, date, nextId)]
                /\ nextId' = nextId + 1
                /\ pc' = [pc EXCEPT ![w] = "save_earlier"]
        /\ UNCHANGED <<rows, now, outcome>>
        /\ effect' = NoEffect
        /\ UNCHANGED <<varVars, restVars>>

\* earlier_version.save() (line 52); a refused write raises and ends the
\* call.
SaveEarlier(w) ==
    /\ pc[w] = "save_earlier"
    /\ rows' = Save(rows, inst[w])
    /\ pc' = [pc EXCEPT ![w] = IF SaveError(rows, inst[w]) # NoError
                               THEN "idle" ELSE "save_later"]
    /\ UNCHANGED <<now, nextId, outcome, inst, later>>
    /\ effect' = NoEffect
    /\ UNCHANGED <<varVars, restVars>>

\* later_version.save() and the return of later_version (lines 54-56).
SaveLater(w) ==
    /\ pc[w] = "save_later"
    /\ rows' = Save(rows, later[w])
    /\ pc' = [pc EXCEPT ![w] = "idle"]
    /\ UNCHANGED <<now, nextId, outcome, inst, later>>
    /\ effect' = NoEffect
    /\ UNCHANGED <<varVars, restVars>>

Next ==
    \/ Tick
    \/ \E w \in Workers : \E r \in rows : Load(w, r)
    \/ \E w \in Workers : \E at \in {NoDate} \cup Times : CloneBegin(w, at)
    \/ \E w \in Workers : SaveEarlier(w)
    \/ \E w \in Workers : SaveLater(w)

Spec == InitStore /\ [][Next]_vars


(* ---------------------- reads of the temporal store ------------------- *)
RowsOf(table, i) == {r \in table : r.identity = i}

\* t lies in [version_start_date, version_end_date); None is an open end.
Contains(r, t) ==
    /\ r.version_start_date <= t
    /\ (r.version_end_date = NoDate \/ t < r.version_end_date)

\* head(identity): the rows of the identity with version_end_date = None.
HeadRows(table, i) == {r \in RowsOf(table, i) : r.version_end_date = NoDate}

\* as_of(identity, t): the rows of the identity whose interval contains t.
AsOf(table, i, t) == {r \in RowsOf(table, i) : Contains(r, t)}

\* Two half-open intervals share a timestamp.
Overlap(r1, r2) ==
    /\ r1.version_end_date = NoDate
       \/ r1.version_start_date < r1.version_end_date
    /\ r2.version_end_date = NoDate
       \/ r2.version_start_date < r2.version_end_date
    /\ r2.version_end_date = NoDate
       \/ r1.version_start_date < r2.version_end_date
    /\ r1.version_end_date = NoDate
       \/ r2.version_start_date < r1.version_end_date

OneHeadNoOverlap(table) ==
    \A i \in Identities :
        /\ Cardinality(HeadRows(table, i)) <= 1
        /\ \A r1, r2 \in RowsOf(table, i) : r1 # r2 => ~Overlap(r1, r2)

(* ------------------- claims on the sequential store ------------------- *)
\* C1: for every identity, after any sequence of successful and failed
\* clone_shallow calls on stored rows, at most one row has version_end_date
\* = None and the intervals of the rows are pairwise non-overlapping.
C1_OneHeadNoOverlap == OneHeadNoOverlap(rows)

\* C1 witness: an identity with three versions, right after a failed call.
C1_Witness ==
    /\ \E i \in Identities : Cardinality(RowsOf(rows, i)) >= 3
    /\ outcome.op = "clone"
    /\ outcome.err = ErrHistorical

\* C2: a successful clone of a head row at a date adds one row: the
\* superseded row has the old values, the old version_start_date, the date
\* as version_end_date and a key no stored row had; the new row has the same
\* values and identity, the original key, the date as version_start_date and
\* no version_end_date, and is what the original key now resolves to.
C2_CloneResult ==
    [][(outcome'.op = "clone" /\ outcome'.err = NoError) =>
        LET self == outcome'.self
            date == IF outcome'.at = NoDate THEN now ELSE outcome'.at
            head == [self EXCEPT !.version_start_date = date]
        IN  /\ self \in rows
            /\ self.version_end_date = NoDate
            /\ Cardinality(rows') = Cardinality(rows) + 1
            /\ \E superseded \in rows' \ rows :
                  /\ superseded.id \notin {r.id : r \in rows}
                  /\ superseded
                       = [self EXCEPT !.id = superseded.id,
                                      !.version_end_date = date]
                  /\ rows' = (rows \ {self}) \cup {superseded, head}
            /\ {r \in rows' : r.id = self.id} = {head}
            /\ outcome'.ret = head
      ]_vars

\* C2 witness: a clone at a forced date after the start of a head row whose
\* field is not the default has succeeded.
C2_Witness ==
    /\ outcome.op = "clone"
    /\ outcome.err = NoError
    /\ outcome.self.active = FALSE
    /\ outcome.at > outcome.self.version_start_date

\* C3: clone fails, and leaves the stored rows as they were, when the
\* instance has no key, or has version_end_date set, or the clone date is not
\* within [version_start_date, now]; in every other case it succeeds.
C3_FailsExactlyWhen ==
    [][outcome'.op = "clone" =>
        LET self == outcome'.self
            date == IF outcome'.at = NoDate THEN now ELSE outcome'.at
            refused == \/ self.id = NoKey
                       \/ self.version_end_date # NoDate
                       \/ ~(self.version_start_date <= date /\ date <= now)
        IN  /\ refused => (outcome'.err # NoError /\ rows' = rows)
            /\ ~refused => (outcome'.err = NoError /\ rows' # rows)
      ]_vars

(* ------------------- claims on the concurrent store ------------------- *)
Quiescent == \A w \in Workers : pc[w] = "idle"

\* C4: when workers that loaded the same head row clone it concurrently, the
\* store never ends up (all clones returned) with two open rows of the
\* identity or with rows of the identity whose intervals overlap.
C4_ConcurrentClonesSerialized == Quiescent => OneHeadNoOverlap(rows)

\* C5: a read at any point of a running clone never finds two rows of an
\* identity whose intervals contain the same timestamp.
C5_ReadsSeeOneRowPerInstant ==
    \A i \in Identities : \A t \in Times : Cardinality(AsOf(rows, i, t)) <= 1

(* -------------------------- variation engine -------------------------- *)
PropIds == 1..MaxProps
ValueIds == 1..MaxValues
VariationIds == 1..MaxVariations
Positions == 0..MaxPosition
Events == 1..NumEvents
\* the event the item, its properties and its variations belong to
ItemEvent == 1
CacheKeys == {"key"}

\* a VariationDict without the key 'variation' (lines 683-684)
NoVariation == 0

\* PropertyValue.Meta.ordering = ("position",): the rows by ascending
\* position, rows of equal position in the order the store scans them.
RECURSIVE OrderByFrom(_, _)
OrderByFrom(seq, p) ==
    IF p > MaxPosition THEN <<>>
    ELSE LET AtP(v) == v.position = p
         IN  SelectSeq(seq, AtP) \o OrderByFrom(seq, p + 1)

OrderByPosition(seq) == OrderByFrom(seq, 0)

\* prop.values.all()
PropValues(p) ==
    LET OfProp(v) == v.prop_id = p
    IN  OrderByPosition(SelectSeq(prop_values, OfProp))

\* var.values.all()
VariationValues(var) ==
    LET OfVar(v) == v.identity \in var.values
    IN  OrderByPosition(SelectSeq(prop_values, OfVar))

\* v.prop.identity: the foreign key prop_id holds the identity of the
\* Property, which is the id of its head row.
PropIdentity(v) == v.prop_id

\* Python's order of (prop, value) pairs.
PairLess(a, b) == a[1] < b[1] \/ (a[1] = b[1] /\ a[2] < b[2])

RECURSIVE InsertSorted(_, _)
InsertSorted(x, sorted) ==
    IF sorted = <<>> THEN <<x>>
    ELSE IF PairLess(x, Head(sorted)) THEN <<x>> \o sorted
    ELSE <<Head(sorted)>> \o InsertSorted(x, Tail(sorted))

\* SortedKey that keeps the order of the list.
SortedKey_Unsorted(key) == key

\* tuple(sorted(key))
RECURSIVE SortedKey(_)
SortedKey(key) ==
    IF key = <<>> THEN <<>>
    ELSE InsertSorted(Head(key), SortedKey(Tail(key)))

\* the key of an ItemVariation in variations_cache (lines 666-669)
VariationKey(var) ==
    LET vs == VariationValues(var)
    IN  SortedKey([k \in 1..Len(vs) |-> <<vs[k].prop_id, vs[k].identity>>])

\* variations_cache after the loop of lines 665-670: a later variation with
\* the same key replaces an earlier one.
RECURSIVE VariationsCache(_)
VariationsCache(all_variations) ==
    IF all_variations = <<>> THEN [key \in {} |-> NoVariation]
    ELSE LET n == Len(all_variations)
             var == all_variations[n]
             before == VariationsCache(SubSeq(all_variations, 1, n - 1))
         IN  [key \in DOMAIN before \cup {VariationKey(var)} |->
                 IF key = VariationKey(var) THEN var.identity
                 ELSE before[key]]

\* Product with the first list varying fastest.
RECURSIVE Product_FirstFastest(_)
Product_FirstFastest(lists) ==
    IF lists = <<>> THEN << <<>> >>
    ELSE LET rest == Product_FirstFastest(Tail(lists))
             first == Head(lists)
             m == Len(first)
         IN  [k \in 1..(m * Len(rest)) |->
                 <<first[((k - 1) % m) + 1]>> \o rest[((k - 1) \div m) + 1]]

\* itertools.product(*lists): the last list varies fastest.
RECURSIVE Product(_)
Product(lists) ==
    IF lists = <<>> THEN << <<>> >>
    ELSE LET rest == Product(Tail(lists))
             first == Head(lists)
             n == Len(rest)
         IN  [k \in 1..(Len(first) * n) |->
                 <<first[((k - 1) \div n) + 1]>> \o rest[((k - 1) % n) + 1]]

\* VariationDict that looks an empty combination up like any other.
VariationDict_NoContinue(comb, variations_cache) ==
    LET key == SortedKey([k \in 1..Len(comb) |->
                             <<PropIdentity(comb[k]), comb[k].identity>>])
        props == {PropIdentity(comb[k]) : k \in 1..Len(comb)}
        LastOf(p) == CHOOSE k \in 1..Len(comb) :
                        /\ PropIdentity(comb[k]) = p
                        /\ \A j \in 1..Len(comb) :
                              PropIdentity(comb[j]) = p => j <= k
    IN  [vals |-> [p \in props |-> comb[LastOf(p)].identity],
         variation |-> IF key \in DOMAIN variations_cache
                       THEN variations_cache[key] ELSE NoVariation]

\* The VariationDict built for one combination (lines 674-685).
VariationDict(comb, variations_cache) ==
    IF Len(comb) = 0 THEN [vals |-> <<>>, variation |-> NoVariation]
    ELSE LET key == SortedKey([k \in 1..Len(comb) |->
                                 <<PropIdentity(comb[k]), comb[k].identity>>])
             props == {PropIdentity(comb[k]) : k \in 1..Len(comb)}
             LastOf(p) == CHOOSE k \in 1..Len(comb) :
                             /\ PropIdentity(comb[k]) = p
                             /\ \A j \in 1..Len(comb) :
                                   PropIdentity(comb[j]) = p => j <= k
         IN  [vals |-> [p \in props |-> comb[LastOf(p)].identity],
              variation |-> IF key \in DOMAIN variations_cache
                            THEN variations_cache[key] ELSE NoVariation]

\* The list get_all_variations computes (lines 662-685).
AllVariations ==
    LET variations_cache == VariationsCache(item_variations)
        combs == Product([i \in 1..Len(properties) |->
                             PropValues(properties[i])])
    IN  [k \in 1..Len(combs) |-> VariationDict(combs[k], variations_cache)]

\* item.get_all_variations(use_cache)
GetAllVariations(use_cache) ==
    /\ IF use_cache /\ memo.set
       THEN /\ call' = [op |-> "get", use_cache |-> use_cache,
                        ret |-> memo.result]
            /\ memo' = memo
       ELSE /\ call' = [op |-> "get", use_cache |-> use_cache,
                        ret |-> AllVariations]
            /\ memo' = [set |-> TRUE, result |-> AllVariations]
    /\ UNCHANGED <<properties, prop_values, item_variations, writes, cache>>
    /\ UNCHANGED <<storeVars, extVars>>

Injective(f) == \A a, b \in DOMAIN f : a # b => f[a] # f[b]

\* The tables an item can have: each value identity stored once, the
\* variations holding any of the stored values.
InitVar ==
    /\ rows = {}
    /\ now = 0
    /\ nextId = NumIdentities + 1
    /\ outcome = NoCall
    /\ inst = [w \in Workers |-> Unsaved]
    /\ later = [w \in Workers |-> Unsaved]
    /\ pc = [w \in Workers |-> "idle"]
    /\ \E n \in 0..MaxProps :
          properties \in {f \in [1..n -> PropIds] : Injective(f)}
    /\ \E n \in 0..MaxValues :
          /\ \E f \in [1..n -> PropIds \X Positions] :
                prop_values = [k \in 1..n |->
                                  [identity |-> k, prop_id |-> f[k][1],
                                   position |-> f[k][2]]]
          /\ \E m \in 0..MaxVariations :
                \E g \in [1..m -> SUBSET (1..n)] :
                   item_variations = [k \in 1..m |->
                                         [identity |-> k, values |-> g[k]]]
    /\ memo = [set |-> FALSE, result |-> <<>>]
    /\ call = [op |-> "none", use_cache |-> FALSE, ret |-> <<>>]
    /\ writes = 0
    /\ cache = [e \in Events |-> CacheKeys]
    /\ InitExt

NextVar == \E use_cache \in BOOLEAN : GetAllVariations(use_cache)

SpecVar == InitVar /\ [][NextVar]_vars

(* ------------------- writes to the item's tables ---------------------- *)
Written == [op |-> "write", use_cache |-> FALSE, ret |-> <<>>]

\* self.<event>.get_cache().clear()
CacheClear(e) == [cache EXCEPT ![e] = {}]

\* item.properties.add(p)
AddProperty(p) ==
    /\ writes < MaxWrites
    /\ \A i \in 1..Len(properties) : properties[i] # p
    /\ properties' = Append(properties, p)
    /\ writes' = writes + 1
    /\ call' = Written
    /\ UNCHANGED <<prop_values, item_variations, memo, cache>>
    /\ UNCHANGED <<storeVars, extVars>>

\* PropertyValue.save() of a new value or of a stored one whose property or
\* position was assigned, and the clearing of the event's cache.
SavePropertyValue(v, p, pos) ==
    LET obj == [identity |-> v, prop_id |-> p, position |-> pos]
    IN  /\ writes < MaxWrites
        /\ IF v <= Len(prop_values)
           THEN /\ prop_values[v] # obj
                /\ prop_values' = [prop_values EXCEPT ![v] = obj]
           ELSE /\ v = Len(prop_values) + 1
                /\ prop_values' = Append(prop_values, obj)
        /\ cache' = CacheClear(ItemEvent)
        /\ writes' = writes + 1
        /\ call' = Written
        /\ UNCHANGED <<properties, item_variations, memo>>
        /\ UNCHANGED <<storeVars, extVars>>

\* ItemVariation(item=item).save(): a new row, no values attached yet, and
\* the clearing of the event's cache. No signature is compared.
SaveItemVariation ==
    /\ writes < MaxWrites
    /\ Len(item_variations) < MaxVariations
    /\ item_variations' =
          Append(item_variations,
                 [identity |-> Len(item_variations) + 1, values |-> {}])
    /\ cache' = CacheClear(ItemEvent)
    /\ writes' = writes + 1
    /\ call' = Written
    /\ UNCHANGED <<properties, prop_values, memo>>
    /\ UNCHANGED <<storeVars, extVars>>

\* var.values.add(v)
AddVariationValue(k, v) ==
    /\ writes < MaxWrites
    /\ k \in 1..Len(item_variations)
    /\ v \in 1..Len(prop_values)
    /\ v \notin item_variations[k].values
    /\ item_variations' =
          [item_variations EXCEPT ![k].values = @ \cup {v}]
    /\ writes' = writes + 1
    /\ call' = Written
    /\ UNCHANGED <<properties, prop_values, memo, cache>>
    /\ UNCHANGED <<storeVars, extVars>>

\* A new item: no property, no value, no variation, the caches filled.
InitEdit ==
    /\ rows = {}
    /\ now = 0
    /\ nextId = NumIdentities + 1
    /\ outcome = NoCall
    /\ inst = [w \in Workers |-> Unsaved]
    /\ later = [w \in Workers |-> Unsaved]
    /\ pc = [w \in Workers |-> "idle"]
    /\ properties = <<>>
    /\ prop_values = <<>>
    /\ item_variations = <<>>
    /\ memo = [set |-> FALSE, result |-> <<>>]
    /\ call = [op |-> "none", use_cache |-> FALSE, ret |-> <<>>]
    /\ writes = 0
    /\ cache = [e \in Events |-> CacheKeys]
    /\ InitExt

NextEdit ==
    \/ \E use_cache \in BOOLEAN : GetAllVariations(use_cache)
    \/ \E p \in PropIds : AddProperty(p)
    \/ \E v \in ValueIds : \E p \in PropIds : \E pos \in Positions :
          SavePropertyValue(v, p, pos)
    \/ SaveItemVariation
    \/ \E k \in VariationIds : \E v \in ValueIds : AddVariationValue(k, v)

SpecEdit == InitEdit /\ [][NextEdit]_vars

(* -------------------- claims on the variation engine ------------------ *)
ValueRows == {prop_values[k] : k \in DOMAIN prop_values}
ValuesOfProp(p) == {v \in ValueRows : v.prop_id = p}
VariationRows == {item_variations[k] : k \in DOMAIN item_variations}
StoreIndex(v) == CHOOSE k \in DOMAIN prop_values : prop_values[k] = v

\* The number of values of the same property that come before v: those of a
\* lower position, and of the same position earlier in the store's scan.
Rank(v) ==
    Cardinality({w \in ValuesOfProp(v.prop_id) :
                    \/ w.position < v.position
                    \/ w.position = v.position
                       /\ StoreIndex(w) < StoreIndex(v)})

\* The number of combinations of the properties after the i-th.
RECURSIVE Weight(_)
Weight(i) ==
    IF i >= Len(properties) THEN 1
    ELSE Cardinality(ValuesOfProp(properties[i + 1])) * Weight(i + 1)

\* The value the k-th element of the product gives the i-th property: the
\* digit of k - 1 in the mixed radix of the value counts, first property
\* most significant.
ExpectedValue(k, i) ==
    LET p == properties[i]
        digit == ((k - 1) \div Weight(i)) % Cardinality(ValuesOfProp(p))
    IN  CHOOSE v \in ValuesOfProp(p) : Rank(v) = digit

\* C6: get_all_variations returns one binding per element of the Cartesian
\* product of the values of the item's properties (their number is the
\* product of the value counts), each binding giving every property exactly
\* one of its values, the values taken in position order and the bindings in
\* product order, the first property varying slowest.
C6_CartesianProductInOrder ==
    call.op = "get" =>
        /\ Len(call.ret) = Weight(0)
        /\ \A k \in 1..Len(call.ret) :
              /\ DOMAIN call.ret[k].vals
                   = {properties[i] : i \in 1..Len(properties)}
              /\ \A i \in 1..Len(properties) :
                    call.ret[k].vals[properties[i]]
                      = ExpectedValue(k, i).identity

\* C6 witness: four bindings of two properties with two values each, the
\* properties not in identity order and a value stored before one of a
\* lower position.
C6_Witness ==
    /\ call.op = "get"
    /\ Len(call.ret) = 4
    /\ properties = <<2, 1>>
    /\ \E v, w \in ValueRows :
          /\ v.prop_id = w.prop_id
          /\ StoreIndex(v) < StoreIndex(w)
          /\ w.position < v.position

\* C6 witness of the empty product: a property without values.
C6_WitnessEmpty ==
    /\ call.op = "get"
    /\ Len(call.ret) = 0
    /\ Len(properties) = 2
    /\ ValueRows # {}

\* The signature of an ItemVariation and of a binding: the set of (property
\* identity, value identity) pairs.
Signature(var) ==
    {<<v.prop_id, v.identity>> : v \in {w \in ValueRows : w.identity \in var.values}}

BindingSignature(b) == {<<p, b.vals[p]>> : p \in DOMAIN b.vals}

OverrideMatches(b) ==
    /\ b.variation # NoVariation
         <=> \E var \in VariationRows : Signature(var) = BindingSignature(b)
    /\ b.variation # NoVariation
         => \E var \in VariationRows :
               /\ var.identity = b.variation
               /\ Signature(var) = BindingSignature(b)

AttachedAtMostOnce(ret) ==
    \A var \in VariationRows :
       Cardinality({k \in 1..Len(ret) : ret[k].variation = var.identity}) <= 1

\* C7 as claimed: every binding carries an override if and only if an
\* ItemVariation of the item has the binding's signature, the override is
\* such an ItemVariation, and no ItemVariation is attached to two bindings.
C7_OverrideIffSignature ==
    call.op = "get" =>
        /\ \A k \in 1..Len(call.ret) : OverrideMatches(call.ret[k])
        /\ AttachedAtMostOnce(call.ret)

\* C7 amended: the same for every binding that assigns at least one
\* property; the binding without assignments carries no override.
C7_OverrideIffSignatureNonEmpty ==
    call.op = "get" =>
        /\ \A k \in 1..Len(call.ret) :
              IF DOMAIN call.ret[k].vals = {}
              THEN call.ret[k].variation = NoVariation
              ELSE OverrideMatches(call.ret[k])
        /\ AttachedAtMostOnce(call.ret)

\* C7 witness: of the bindings of two properties one carries an override and
\* one does not, while two ItemVariations share the signature of the first.
C7_Witness ==
    /\ call.op = "get"
    /\ properties = <<2, 1>>
    /\ \E k \in 1..Len(call.ret) :
          /\ call.ret[k].variation # NoVariation
          /\ Cardinality({var \in VariationRows :
                Signature(var) = BindingSignature(call.ret[k])}) = 2
    /\ \E k \in 1..Len(call.ret) : call.ret[k].variation = NoVariation

\* C8: for an item without properties get_all_variations returns exactly one
\* binding, with no property assignment and no override, whatever
\* ItemVariation rows exist.
C8_NoPropertiesOneBinding ==
    (call.op = "get" /\ properties = <<>>) =>
        call.ret = << [vals |-> <<>>, variation |-> NoVariation] >>

\* C8 witness: a call on an item without properties that has an
\* ItemVariation without values and one with values.
C8_Witness ==
    /\ call.op = "get"
    /\ properties = <<>>
    /\ \E var \in VariationRows : var.values = {}
    /\ \E var \in VariationRows : var.values # {}

\* C9: after a write to the item's properties, values or variations, a
\* get_all_variations(use_cache=True) on the same instance returns what the
\* stored data give, not the list memoized before the write.
C9_CachedCallReflectsStore ==
    (call.op = "get" /\ call.use_cache) => call.ret = AllVariations

\* C10: no two ItemVariation rows of the item have the same signature.
C10_UniqueSignatures ==
    \A a, b \in VariationRows : a # b => Signature(a) # Signature(b)

(* -------------------------------- items ------------------------------- *)
\* Item.event: the event of the rows of an identity, a foreign key that is
\* not null and that none of the operations below assigns.
EventOfItem(self) == ((self.identity - 1) % NumEvents) + 1

\* The side effects a save() or delete() has, in the order it has them.
Write(key) == [do |-> "write", on |-> key]
Clear(e) == [do |-> "clear", on |-> e]

\* A view stores an entry in the cache of an event.
CacheFill(e) ==
    /\ cache[e] # CacheKeys
    /\ cache' = [cache EXCEPT ![e] = CacheKeys]
    /\ effect' = NoEffect
    /\ UNCHANGED <<properties, prop_values, item_variations, memo, call,
                   writes>>
    /\ UNCHANGED <<storeVars, restVars>>

\* Deleted without the assignment of active.
Deleted_KeepsActive(self) == [self EXCEPT !.deleted = TRUE]

\* Item.delete, the fields it assigns (lines 642-643).
Deleted(self) == [self EXCEPT !.deleted = TRUE, !.active = FALSE]

\* Item.save(): the write of the instance as it is in memory, then the
\* clearing of the cache of its event.
ItemSave(w) ==
    LET self == inst[w]
        e == EventOfItem(self)
    IN  /\ pc[w] = "idle"
        /\ self.id # NoKey
        /\ rows' = Save(rows, self)
        /\ cache' = CacheClear(e)
        /\ effect' = [op |-> "save", kind |-> "Item", self |-> self,
                      event |-> e, trace |-> <<Write(self.id), Clear(e)>>]
        /\ UNCHANGED <<now, nextId, outcome, inst, later, pc>>
        /\ UNCHANGED <<properties, prop_values, item_variations, memo, call,
                       writes>>
        /\ UNCHANGED restVars

\* Item.delete(): the two flags, the write through Model.save() and the
\* clearing of the cache of its event.
ItemDelete(w) ==
    LET self == Deleted(inst[w])
        e == EventOfItem(self)
    IN  /\ pc[w] = "idle"
        /\ inst[w].id # NoKey
        /\ inst' = [inst EXCEPT ![w] = self]
        /\ rows' = Save(rows, self)
        /\ cache' = CacheClear(e)
        /\ effect' = [op |-> "delete", kind |-> "Item", self |-> self,
                      event |-> e, trace |-> <<Write(self.id), Clear(e)>>]
        /\ UNCHANGED <<now, nextId, outcome, later, pc>>
        /\ UNCHANGED <<properties, prop_values, item_variations, memo, call,
                       writes>>
        /\ UNCHANGED restVars

\* earlier_version.save() of clone_shallow on an Item (line 52): the call
\* goes to Item.save(), which writes the row and clears the cache of the
\* item's event (lines 636-639).
ItemSaveEarlier(w) ==
    LET self == inst[w]
        e == EventOfItem(self)
    IN  /\ pc[w] = "save_earlier"
        /\ rows' = Save(rows, self)
        /\ cache' = CacheClear(e)
        /\ effect' = [op |-> "save", kind |-> "Item", self |-> self,
                      event |-> e, trace |-> <<Write(self.id), Clear(e)>>]
        /\ pc' = [pc EXCEPT ![w] = "save_later"]
        /\ UNCHANGED <<now, nextId, outcome, inst, later>>
        /\ UNCHANGED <<properties, prop_values, item_variations, memo, call,
                       writes>>
        /\ UNCHANGED restVars

\* later_version.save() of clone_shallow on an Item and the return of
\* later_version (lines 54-56): a second Item.save(), a second write and a
\* second clearing. The instance the call was made on stays the earlier
\* version; the version returned is later[w].
ItemSaveLater(w) ==
    LET self == later[w]
        e == EventOfItem(self)
    IN  /\ pc[w] = "save_later"
        /\ rows' = Save(rows, self)
        /\ cache' = CacheClear(e)
        /\ effect' = [op |-> "save", kind |-> "Item", self |-> self,
                      event |-> e, trace |-> <<Write(self.id), Clear(e)>>]
        /\ pc' = [pc EXCEPT ![w] = "idle"]
        /\ UNCHANGED <<now, nextId, outcome, inst, later>>
        /\ UNCHANGED <<properties, prop_values, item_variations, memo, call,
                       writes>>
        /\ UNCHANGED restVars

NextItem ==
    \/ Tick
    \/ \E w \in Workers : \E r \in rows : Load(w, r)
    \/ \E e \in Events : CacheFill(e)
    \/ \E w \in Workers : ItemSave(w)
    \/ \E w \in Workers : ItemDelete(w)
    \/ \E w \in Workers : \E at \in {NoDate} \cup Times : CloneBegin(w, at)
    \/ \E w \in Workers : ItemSaveEarlier(w)
    \/ \E w \in Workers : ItemSaveLater(w)

\* One item was created, in any of the events.
InitItem ==
    /\ \E i \in Identities : \E a \in BOOLEAN : rows = {Created(i, a)}
    /\ now = 0
    /\ nextId = NumIdentities + 1
    /\ outcome = NoCall
    /\ inst = [w \in Workers |-> Unsaved]
    /\ later = [w \in Workers |-> Unsaved]
    /\ pc = [w \in Workers |-> "idle"]
    /\ properties = <<>>
    /\ prop_values = <<>>
    /\ item_variations = <<>>
    /\ memo = [set |-> FALSE, result |-> <<>>]
    /\ call = [op |-> "none", use_cache |-> FALSE, ret |-> <<>>]
    /\ writes = 0
    /\ cache = [e \in Events |-> CacheKeys]
    /\ InitExt

SpecItem == InitItem /\ [][NextItem]_vars

ClearsIn(trace) == {k \in DOMAIN trace : trace[k].do = "clear"}

\* C11: Item.delete sets deleted and unsets active on the item, writes them
\* to the item's row, removes no row, and clears the cache of the item's
\* event once, and no other cache.
C11_ItemDeleteSoft ==
    [][(effect'.op = "delete" /\ effect'.kind = "Item") =>
        LET self == effect'.self
            e == effect'.event
        IN  /\ self.deleted /\ ~self.active
            /\ {r \in rows' : r.id = self.id} = {self}
            /\ {r.id : r \in rows} \subseteq {r.id : r \in rows'}
            /\ Cardinality(rows') >= Cardinality(rows)
            /\ e = EventOfItem(self)
            /\ Cardinality(ClearsIn(effect'.trace)) = 1
            /\ \A k \in ClearsIn(effect'.trace) : effect'.trace[k].on = e
            /\ cache'[e] = {}
            /\ \A o \in Events \ {e} : cache'[o] = cache[o]
      ]_vars

\* C11 witness: an active item whose event had a cache entry was deleted.
C11_Witness ==
    /\ effect.op = "delete"
    /\ effect.kind = "Item"
    /\ effect.self \in rows
    /\ Created(effect.self.identity, TRUE) \notin rows
    /\ \E o \in Events \ {effect.event} : cache[o] # {}

\* C19: every stored item row that is deleted is inactive, and a row that is
\* deleted stays deleted under every later save, delete and clone.
C19_DeletedStaysInactive ==
    [][\A s \in rows' :
          /\ s.deleted => ~s.active
          /\ \A r \in rows : (r.id = s.id /\ r.deleted) => s.deleted
      ]_vars

(* --------------------- the entities an event owns --------------------- *)
\* The models with an event of their own (Restriction: BaseRestriction).
DirectKinds == {"ItemCategory", "Property", "Question", "Restriction", "Quota"}
Kinds == DirectKinds \cup {"Event", "PropertyValue", "ItemVariation"}

\* The models that override the operation to clear the cache: save() all of
\* them but Quota, delete() all of them but Quota and Event; Quota defines
\* neither and Event defines save() only, the rest is inherited.
ClearsCache(op, kind) ==
    /\ kind # "Quota"
    /\ op = "delete" => kind # "Event"

\* The event an instance reaches: self for an Event, self.prop.event for a
\* PropertyValue, self.item.event for an ItemVariation, self.event otherwise.
\* The cache is the one of the identity of that event, the same for every
\* version of it; ref of an Event is its identity.
EventOf(obj, table) ==
    CASE obj.kind = "Event" -> obj.ref
      [] obj.kind = "PropertyValue" ->
            (CHOOSE p \in table : p.kind = "Property" /\ p.id = obj.ref).ref
      [] obj.kind = "ItemVariation" -> EventOfItem(Created(obj.ref, TRUE))
      [] OTHER -> obj.ref

\* What the foreign key of an instance can refer to.
Refs(kind, id, table) ==
    CASE kind = "Event" -> {id}
      [] kind = "PropertyValue" -> {p.id : p \in {r \in table : r.kind = "Property"}}
      [] kind = "ItemVariation" -> Identities
      [] OTHER -> Events

\* Model.save() on the table of all these models: one row per model and key.
SaveRow(table, obj) ==
    {r \in table : ~(r.kind = obj.kind /\ r.id = obj.id)} \cup {obj}

\* The calls of save() on an instance whose event is e: the write, then,
\* where the model overrides save(), the clearing of the cache of e.
SaveTrace(obj, e) ==
    <<Write(obj.id)>>
        \o (IF ClearsCache("save", obj.kind) THEN <<Clear(e)>> ELSE <<>>)

\* The calls of delete(): those of the inherited delete(), which writes the
\* ended row either itself or through self.save(), then, where the model
\* overrides delete(), the clearing of the cache of e.
DeleteTrace(obj, e, via_save) ==
    (IF via_save THEN SaveTrace(obj, e) ELSE <<Write(obj.id)>>)
        \o (IF ClearsCache("delete", obj.kind) THEN <<Clear(e)>> ELSE <<>>)

\* The row written and the cache after the calls of trace.
WrittenOwned(obj, e, op, trace) ==
    /\ owned' = SaveRow(owned, obj)
    /\ cache' = IF ClearsIn(trace) = {} THEN cache ELSE CacheClear(e)
    /\ effect' = [op |-> op, kind |-> obj.kind, self |-> obj, event |-> e,
                  trace |-> trace]

\* save() of an instance of one of the models, written as it is in memory,
\* current or ended: the write, then, where the model overrides save(), the
\* clearing of the cache of the event reached.
SaveOwned(kind, id, ref, current) ==
    LET obj == [kind |-> kind, id |-> id, ref |-> ref, current |-> current]
        e == EventOf(obj, SaveRow(owned, obj))
    IN  /\ writes < MaxOwnedWrites
        /\ id \in (IF kind = "Event" THEN Events ELSE Identities)
        /\ ref \in Refs(kind, id, owned)
        /\ WrittenOwned(obj, e, "save", SaveTrace(obj, e))
        /\ writes' = writes + 1
        /\ UNCHANGED <<properties, prop_values, item_variations, memo, call>>
        /\ UNCHANGED <<storeVars, userVars, quotaVars>>

\* The instance after the inherited delete(): its version is ended, the row
\* stays in the table, and what refers to it still reaches it.
Ended(obj) == [obj EXCEPT !.current = FALSE]

\* delete() of a stored instance of one of the models: the inherited
\* delete(), which ends the row and writes it, itself or through the save()
\* of the model, then, where the model overrides delete(), the clearing of
\* the cache of the event reached. Nothing is checked first: an Event is
\* deleted like the others, and a Property with its values in place.
DeleteOwned(obj, via_save) ==
    LET self == Ended(obj)
        e == EventOf(obj, owned)
    IN  /\ writes < MaxOwnedWrites
        /\ obj \in owned
        /\ WrittenOwned(self, e, "delete", DeleteTrace(self, e, via_save))
        /\ writes' = writes + 1
        /\ UNCHANGED <<properties, prop_values, item_variations, memo, call>>
        /\ UNCHANGED <<storeVars, userVars, quotaVars>>

\* clone_shallow() of a stored instance of one of the models, without a
\* forced date, up to the first save (lines 29-51): a historical instance
\* is refused and nothing changes; otherwise the copy keeps the key and the
\* instance takes a new one and is ended, both in memory. The two writes
\* of the call are counted here.
CloneOwnedBegin(w, obj) ==
    /\ pc[w] = "idle"
    /\ obj \in owned
    /\ obj.current
    /\ nextId <= LastKey
    /\ writes + 2 <= MaxOwnedWrites
    /\ writes' = writes + 2
    /\ later' = [later EXCEPT ![w] = obj]
    /\ inst' = [inst EXCEPT ![w] = [Ended(obj) EXCEPT !.id = nextId]]
    /\ nextId' = nextId + 1
    /\ pc' = [pc EXCEPT ![w] = "save_earlier"]
    /\ effect' = NoEffect
    /\ UNCHANGED <<rows, now, outcome, owned, userVars, quotaVars>>
    /\ UNCHANGED <<properties, prop_values, item_variations, memo, call,
                   cache>>

\* earlier_version.save() (line 52), the save() of the model.
OwnedSaveEarlier(w) ==
    LET self == inst[w]
        e == EventOf(self, SaveRow(owned, self))
    IN  /\ pc[w] = "save_earlier"
        /\ WrittenOwned(self, e, "save", SaveTrace(self, e))
        /\ pc' = [pc EXCEPT ![w] = "save_later"]
        /\ UNCHANGED <<rows, now, nextId, outcome, inst, later, writes>>
        /\ UNCHANGED <<properties, prop_values, item_variations, memo, call>>
        /\ UNCHANGED <<userVars, quotaVars>>

\* later_version.save() and the return of later_version (lines 54-56); the
\* call is over and its frame is dropped.
OwnedSaveLater(w) ==
    LET self == later[w]
        e == EventOf(self, SaveRow(owned, self))
    IN  /\ pc[w] = "save_later"
        /\ WrittenOwned(self, e, "save", SaveTrace(self, e))
        /\ pc' = [pc EXCEPT ![w] = "idle"]
        /\ inst' = [inst EXCEPT ![w] = Unsaved]
        /\ later' = [later EXCEPT ![w] = Unsaved]
        /\ UNCHANGED <<rows, now, nextId, outcome, writes>>
        /\ UNCHANGED <<properties, prop_values, item_variations, memo, call>>
        /\ UNCHANGED <<userVars, quotaVars>>

\* The events and one property in each of them are stored; the caches are
\* filled.
InitOwned ==
    /\ rows = {}
    /\ now = 0
    /\ nextId = NumIdentities + 1
    /\ outcome = NoCall
    /\ inst = [w \in Workers |-> Unsaved]
    /\ later = [w \in Workers |-> Unsaved]
    /\ pc = [w \in Workers |-> "idle"]
    /\ properties = <<>>
    /\ prop_values = <<>>
    /\ item_variations = <<>>
    /\ memo = [set |-> FALSE, result |-> <<>>]
    /\ call = [op |-> "none", use_cache |-> FALSE, ret |-> <<>>]
    /\ writes = 0
    /\ cache = [e \in Events |-> CacheKeys]
    /\ effect = NoEffect
    /\ user = NewUser
    /\ user_call = NoUserCall
    /\ InitLedger
    /\ owned = {[kind |-> "Event", id |-> e, ref |-> e, current |-> TRUE] :
                  e \in Events}
               \cup {[kind |-> "Property", id |-> i,
                      ref |-> ((i - 1) % NumEvents) + 1,
                      current |-> TRUE] : i \in Identities}

NextOwned ==
    \/ \E e \in Events : CacheFill(e)
    \/ \E kind \in Kinds : \E id \in Identities \cup Events :
          \E ref \in Identities \cup Events : \E current \in BOOLEAN :
             SaveOwned(kind, id, ref, current)
    \/ \E obj \in owned : \E via_save \in BOOLEAN : DeleteOwned(obj, via_save)
    \/ \E w \in Workers : \E obj \in owned : CloneOwnedBegin(w, obj)
    \/ \E w \in Workers : OwnedSaveEarlier(w)
    \/ \E w \in Workers : OwnedSaveLater(w)

SpecOwned == InitOwned /\ [][NextOwned]_vars

\* C12: every save or delete of an entity an event owns ends with the
\* clearing of the cache of that event, after the write, and leaves no entry
\* in that cache.
C12_EveryWriteClearsLast ==
    [][effect'.op \in {"save", "delete"} =>
        LET t == effect'.trace
            e == effect'.event
        IN  /\ Len(t) >= 2
            /\ t[Len(t)] = Clear(e)
            /\ \E k \in 1..(Len(t) - 1) : t[k].do = "write"
            /\ cache'[e] = {}
      ]_vars

\* C13: a save or delete of an entity an event owns clears the cache of
\* exactly one event, the one the walk from the entity reaches, and leaves
\* the cache of every other event as it was.
C13_ClearsExactlyOwner ==
    [][effect'.op \in {"save", "delete"} =>
        LET t == effect'.trace
            e == EventOf(effect'.self, owned')
        IN  /\ {t[k].on : k \in ClearsIn(t)} = {e}
            /\ cache'[e] = {}
            /\ \A o \in Events \ {e} : cache'[o] = cache[o]
      ]_vars

(* -------------------------------- users ------------------------------- *)
Chars == {"a", "B"}
Strings == UNION {[1..n -> Chars] : n \in 0..MaxStrLen}

\* str.lower(), character by character.
LowerChar(c) == CASE c = "A" -> "a" [] c = "B" -> "b" [] OTHER -> c
Lower(str) == [k \in DOMAIN str |-> LowerChar(str[k])]

\* The decimal digits of a natural number.
RECURSIVE Decimal(_)
Decimal(n) ==
    LET digit == <<"0", "1", "2", "3", "4", "5", "6", "7", "8", "9">>
    IN  IF n < 10 THEN <<digit[n + 1]>>
        ELSE Append(Decimal(n \div 10), digit[(n % 10) + 1])

\* An event whose id is the number n, and one whose id is a string, as
\* six.u(str(uuid.uuid4())) makes the id of a Versionable.
EventWithNumber(n) == [str |-> FALSE, text |-> Decimal(n)]
EventWithUuid(n) == [str |-> TRUE, text |-> <<"u">> \o Decimal(n)]

AttributeError == "'NoneType' object has no attribute 'lower'"
TypeError == "%d format: a number is required, not str"

\* "%s@%d.event.tixl" % (username, id): %d takes a number only.
FormatLocal(username, id) ==
    IF id.str THEN [err |-> TypeError, str |-> None]
    ELSE [err |-> NoError,
          str |-> username \o <<"@">> \o id.text \o <<".event.tixl">>]

\* Lines 159-163: the identifier of an instance whose identifier is None.
FilledIdentifier(self) ==
    IF self.identifier # None
    THEN [err |-> NoError, str |-> self.identifier]
    ELSE IF self.event = NoEvent
         THEN IF self.email = None
              THEN [err |-> AttributeError, str |-> None]
              ELSE [err |-> NoError, str |-> Lower(self.email)]
         ELSE IF self.username = None
              THEN [err |-> AttributeError, str |-> None]
              ELSE FormatLocal(Lower(self.username), self.event)

\* Lines 164-165: the identifier is lower-cased while the instance has no pk.
FirstSaveLower(pk, identifier) ==
    IF pk = NoKey THEN Lower(identifier) ELSE identifier

\* User.save(): the identifier is filled and lower-cased on the instance,
\* then Model.save() stores it, under a new pk if it had none.
UserSave ==
    LET filled == FilledIdentifier(user)
    IN  /\ user_call' = [op |-> "save", err |-> filled.err, self |-> user]
        /\ IF filled.err # NoError
           THEN user' = user
           ELSE user' = [user EXCEPT
                           !.identifier = FirstSaveLower(user.pk, filled.str),
                           !.pk = IF user.pk = NoKey THEN 1 ELSE user.pk]
        /\ effect' = NoEffect
        /\ UNCHANGED <<storeVars, varVars, owned, quotaVars>>

\* A User instance as a caller can hand it to save(): new or loaded, each
\* field None or a string, no event or an event.
InitUser ==
    /\ rows = {}
    /\ now = 0
    /\ nextId = NumIdentities + 1
    /\ outcome = NoCall
    /\ inst = [w \in Workers |-> Unsaved]
    /\ later = [w \in Workers |-> Unsaved]
    /\ pc = [w \in Workers |-> "idle"]
    /\ properties = <<>>
    /\ prop_values = <<>>
    /\ item_variations = <<>>
    /\ memo = [set |-> FALSE, result |-> <<>>]
    /\ call = [op |-> "none", use_cache |-> FALSE, ret |-> <<>>]
    /\ writes = 0
    /\ cache = [e \in Events |-> CacheKeys]
    /\ effect = NoEffect
    /\ owned = {}
    /\ user \in [pk : {NoKey, 1},
                 identifier : {None} \cup Strings,
                 email : {None} \cup Strings,
                 username : {None} \cup Strings,
                 event : {NoEvent} \cup {EventWithNumber(n) : n \in Events}
                           \cup {EventWithUuid(n) : n \in Events}]
    /\ user_call = NoUserCall
    /\ InitLedger

NextUser == UserSave

SpecUser == InitUser /\ [][NextUser]_vars

\* C18: User.save fills an identifier that is None, with the lower-cased
\* e-mail address for a user with no event and with the lower-cased username,
\* "@", the id of the event and ".event.tixl" for a user of an event; it
\* keeps an identifier that is set, lower-cased when the instance is saved
\* for the first time.
C18_IdentifierFilled ==
    user_call.op = "save" =>
        LET self == user_call.self
            set == IF self.pk = NoKey THEN Lower(self.identifier)
                   ELSE self.identifier
        IN  /\ (self.identifier = None /\ self.event = NoEvent
                  /\ self.email # None)
               => (user_call.err = NoError
                     /\ user.identifier = Lower(self.email))
            /\ (self.identifier = None /\ self.event # NoEvent
                  /\ self.username # None)
               => (user_call.err = NoError
                     /\ user.identifier
                          = Lower(self.username) \o <<"@">>
                              \o self.event.text \o <<".event.tixl">>)
            /\ self.identifier # None
               => (user_call.err = NoError /\ user.identifier = set)

(* ----------------------------- quota ledger --------------------------- *)
Quotas == 1..NumQuotas
QuotaItems == 1..NumItems
QuotaVariations == 1..NumVariations
TimeToLive == 1

\* A quota applies to every variation of its items when it names no
\* variation, and to the variations it names otherwise.
Covers(quota, item, variation) ==
    /\ item \in quota.items
    /\ quota.variations = {} \/ variation \in quota.variations

Covering(item, variation) ==
    {q \in Quotas : Covers(quotas[q], item, variation)}

\* available = size - (confirmed orders + cart locks).
Consumed(q) == Cardinality(order_cache[q]) + Cardinality(lock_cache[q])
Available(q) == quotas[q].size - Consumed(q)

\* The covering quotas without headroom for the requested count.
Lacking(item, variation, count) ==
    {q \in Covering(item, variation) : Available(q) < count}

\* The locks of a quota: one in the external backend, shared by all
\* processes, and the local guard of each process, which the degraded mode
\* uses when the backend is unreachable.
Backend == 0
Processes == 1..NumProcesses
LockSpaces == {Backend} \cup Processes

\* The mutual exclusion of the lock of a quota, within one lock space.
LockFree(space, q) == held[space][q] = NoWorker

\* The locks a request was given and has not released.
HeldBy(w) == req[w].tokens

\* The reservation requests made so far.
RECURSIVE SumResults(_)
SumResults(ws) ==
    IF ws = {} THEN 0
    ELSE LET w == CHOOSE x \in ws : TRUE
         IN  Len(req[w].results)
               + (IF req[w].pc \in {"acquire", "grant"} THEN 1 ELSE 0)
               + SumResults(ws \ {w})
Requests == SumResults(Workers)

\* reserve(item, variation, quantity), first step: the request is made, in
\* some process, and the backend is found reachable (the request takes its
\* locks there) or unreachable (LockBackendUnavailable: the request goes on
\* in degraded mode, under the local guard of its process).
Request(w, item, variation, count, guard) ==
    /\ req[w].pc = "idle"
    /\ Requests < MaxRequests
    /\ req' = [req EXCEPT ![w] = [pc |-> "acquire", item |-> item,
                                  variation |-> variation, count |-> count,
                                  guard |-> guard, tokens |-> {},
                                  results |-> req[w].results]]
    /\ effect' = NoEffect
    /\ UNCHANGED <<quotas, lock_cache, order_cache, carts, held>>
    /\ UNCHANGED <<storeVars, varVars, owned, userVars>>

\* The locks of the covering quotas are acquired one by one, in the order of
\* the quotas, before the headroom is looked at.
Acquire(w) ==
    LET space == req[w].guard
        need == Covering(req[w].item, req[w].variation) \ HeldBy(w)
        q == CHOOSE x \in need : \A y \in need : x <= y
    IN  /\ req[w].pc = "acquire"
        /\ need # {}
        /\ LockFree(space, q)
        /\ held' = [held EXCEPT ![space][q] = w]
        /\ req' = [req EXCEPT ![w].tokens = @ \cup {q}]
        /\ effect' = NoEffect
        /\ UNCHANGED <<quotas, lock_cache, order_cache, carts>>
        /\ UNCHANGED <<storeVars, varVars, owned, userVars>>

\* The locks after release(token) for the tokens of w: a lock that lapsed
\* and went to another request stays with it.
Released(w) ==
    [s \in LockSpaces |-> [q \in Quotas |->
        IF s = req[w].guard /\ q \in req[w].tokens /\ held[s][q] = w
        THEN NoWorker ELSE held[s][q]]]

\* acquire(key, ttl): the lock of the backend is short-lived. Its ttl runs
\* in real time, whatever the holder does, and may elapse between any two
\* steps of the holder; the lock is then free although the holder has not
\* released it. A local guard is held until it is released.
Lapse(q) ==
    /\ held[Backend][q] # NoWorker
    /\ held' = [held EXCEPT ![Backend][q] = NoWorker]
    /\ effect' = NoEffect
    /\ UNCHANGED <<quotas, lock_cache, order_cache, carts, req>>
    /\ UNCHANGED <<storeVars, varVars, owned, userVars>>

\* acquire returns Busy: the lock of the backend is with another request.
\* The acquire is tried again, and after the last try the error goes to the
\* caller: the locks taken so far are released and nothing was counted.
Busy(w) ==
    LET need == Covering(req[w].item, req[w].variation) \ HeldBy(w)
        q == CHOOSE x \in need : \A y \in need : x <= y
    IN  /\ req[w].pc = "acquire"
        /\ req[w].guard = Backend
        /\ need # {}
        /\ ~LockFree(Backend, q)
        /\ held' = Released(w)
        /\ req' = [req EXCEPT ![w] = [NoRequest EXCEPT
                                        !.results = req[w].results]]
        /\ effect' = NoEffect
        /\ UNCHANGED <<quotas, lock_cache, order_cache, carts>>
        /\ UNCHANGED <<storeVars, varVars, owned, userVars>>

\* The cart positions a grant creates.
NewCarts(item, variation, count) ==
    [k \in 1..count |-> [item |-> item, variation |-> variation,
                         expires |-> now + TimeToLive, state |-> "granted"]]

\* Under the locks: the headroom of every covering quota is read. Without
\* headroom in each of them the request ends with QuotaExceeded and nothing
\* is counted.
Check(w) ==
    LET lacking == Lacking(req[w].item, req[w].variation, req[w].count)
    IN  /\ req[w].pc = "acquire"
        /\ Covering(req[w].item, req[w].variation) \ HeldBy(w) = {}
        /\ IF lacking = {}
           THEN req' = [req EXCEPT ![w].pc = "grant"]
           ELSE req' = [req EXCEPT
                          ![w].pc = "release",
                          ![w].results = Append(@, "QuotaExceeded")]
        /\ effect' = NoEffect
        /\ UNCHANGED <<quotas, lock_cache, order_cache, carts, held>>
        /\ UNCHANGED <<storeVars, varVars, owned, userVars>>

\* Still under the locks: the cart positions are created and counted against
\* every covering quota.
Grant(w) ==
    LET item == req[w].item
        variation == req[w].variation
        count == req[w].count
        covering == Covering(item, variation)
        ids == (Len(carts) + 1)..(Len(carts) + count)
    IN  /\ req[w].pc = "grant"
        /\ Len(carts) + count <= MaxCarts
        /\ carts' = carts \o NewCarts(item, variation, count)
        /\ lock_cache' = [q \in Quotas |->
                            IF q \in covering THEN lock_cache[q] \cup ids
                            ELSE lock_cache[q]]
        /\ req' = [req EXCEPT ![w].pc = "release",
                              ![w].results = Append(@, "granted")]
        /\ effect' = NoEffect
        /\ UNCHANGED <<quotas, order_cache, held>>
        /\ UNCHANGED <<storeVars, varVars, owned, userVars>>

\* The locks are released together.
Release(w) ==
    /\ req[w].pc = "release"
    /\ held' = Released(w)
    /\ req' = [req EXCEPT ![w].pc = "idle", ![w].guard = Backend,
                          ![w].tokens = {}]
    /\ effect' = NoEffect
    /\ UNCHANGED <<quotas, lock_cache, order_cache, carts>>
    /\ UNCHANGED <<storeVars, varVars, owned, userVars>>

\* Conversion that asks for headroom again.
ConvertResult_Rechecks(c) ==
    IF carts[c].expires <= now THEN "ReservationExpired"
    ELSE IF Lacking(carts[c].item, carts[c].variation, 1) # {}
         THEN "QuotaExceeded"
    ELSE "converted"

\* convert(cart_position): refused only when the time to live has elapsed.
ConvertResult(c) ==
    IF carts[c].expires <= now THEN "ReservationExpired" ELSE "converted"

\* The unit moves from the cart locks to the orders of every covering quota;
\* a refused conversion raises and changes nothing.
Convert(c) ==
    LET result == ConvertResult(c)
        covering == Covering(carts[c].item, carts[c].variation)
    IN  /\ c \in DOMAIN carts
        /\ carts[c].state = "granted"
        /\ result = "converted"
        /\ carts' = [carts EXCEPT ![c].state = "converted"]
        /\ lock_cache' = [q \in Quotas |-> lock_cache[q] \ {c}]
        /\ order_cache' = [q \in Quotas |->
                             IF q \in covering THEN order_cache[q] \cup {c}
                             ELSE order_cache[q]]
        /\ effect' = NoEffect
        /\ UNCHANGED <<quotas, held, req>>
        /\ UNCHANGED <<storeVars, varVars, owned, userVars>>

\* The cart position is given up: its capacity goes back to the pool.
Cancel(c) ==
    /\ c \in DOMAIN carts
    /\ carts[c].state = "granted"
    /\ carts' = [carts EXCEPT ![c].state = "cancelled"]
    /\ lock_cache' = [q \in Quotas |-> lock_cache[q] \ {c}]
    /\ effect' = NoEffect
    /\ UNCHANGED <<quotas, order_cache, held, req>>
    /\ UNCHANGED <<storeVars, varVars, owned, userVars>>

\* The cart positions the reaper may remove: granted, expires has passed.
Expired(c) ==
    /\ c \in DOMAIN carts
    /\ carts[c].state = "granted"
    /\ carts[c].expires <= now

\* A reaper that marks the position and leaves its lock.
Reaped_KeepsLock(c) == lock_cache

\* The locks after the reaper removed those of an expired cart position.
Reaped(c) == [q \in Quotas |-> lock_cache[q] \ {c}]

Reap(c) ==
    /\ Expired(c)
    /\ carts' = [carts EXCEPT ![c].state = "expired"]
    /\ lock_cache' = Reaped(c)
    /\ effect' = NoEffect
    /\ UNCHANGED <<quotas, order_cache, held, req>>
    /\ UNCHANGED <<storeVars, varVars, owned, userVars>>

\* The quotas of an event, of any size, each tied to items and to any of
\* their variations; nothing sold or reserved.
InitQuota ==
    /\ rows = {}
    /\ now = 0
    /\ nextId = NumIdentities + 1
    /\ outcome = NoCall
    /\ inst = [w \in Workers |-> Unsaved]
    /\ later = [w \in Workers |-> Unsaved]
    /\ pc = [w \in Workers |-> "idle"]
    /\ properties = <<>>
    /\ prop_values = <<>>
    /\ item_variations = <<>>
    /\ memo = [set |-> FALSE, result |-> <<>>]
    /\ call = [op |-> "none", use_cache |-> FALSE, ret |-> <<>>]
    /\ writes = 0
    /\ cache = [e \in Events |-> CacheKeys]
    /\ effect = NoEffect
    /\ owned = {}
    /\ user = NewUser
    /\ user_call = NoUserCall
    /\ quotas \in [Quotas -> [size : 1..MaxSize,
                              items : (SUBSET QuotaItems) \ {{}},
                              variations : SUBSET QuotaVariations]]
    /\ lock_cache = [q \in Quotas |-> {}]
    /\ order_cache = [q \in Quotas |-> {}]
    /\ carts = <<>>
    /\ held = [s \in LockSpaces |-> [q \in Quotas |-> NoWorker]]
    /\ req = [w \in Workers |-> NoRequest]

Reserve ==
    \/ \E w \in Workers : \E item \in QuotaItems :
          \E variation \in {NoVariation} \cup QuotaVariations :
             \E count \in 1..MaxCount : \E guard \in LockSpaces :
                Request(w, item, variation, count, guard)
    \/ \E w \in Workers : Acquire(w)
    \/ \E w \in Workers : Busy(w)
    \/ \E q \in Quotas : Lapse(q)
    \/ \E w \in Workers : Check(w)
    \/ \E w \in Workers : Grant(w)
    \/ \E w \in Workers : Release(w)

Reaper == \E c \in 1..MaxCarts : Reap(c)

NextQuota ==
    \/ (now < MaxLedgerTime /\ Tick)
    \/ Reserve
    \/ \E c \in 1..MaxCarts : Convert(c)
    \/ \E c \in 1..MaxCarts : Cancel(c)
    \/ Reaper

SpecQuota == InitQuota /\ [][NextQuota]_vars

\* The reaper runs as long as an expired cart position is there to remove.
SpecQuotaFair == SpecQuota /\ WF_vars(Reaper)

CartIds == 1..MaxCarts
Counted(c) == {q \in Quotas : c \in lock_cache[q] \cup order_cache[q]}
Decided(w) == req[w].pc \in {"release", "idle"} /\ Len(req[w].results) = 1

\* C14: the order positions and cart locks counted against a quota never
\* exceed its size, whatever the interleaving of the requests; of two
\* requests for one unit of the same target covered by a quota of size 1,
\* the only requests made, with nothing released since, exactly one is
\* granted and the other ends with QuotaExceeded.
C14_NeverOversold ==
    /\ \A q \in Quotas : Consumed(q) <= quotas[q].size
    /\ \A w1, w2 \in Workers :
          (/\ w1 # w2
           /\ Requests = 2
           /\ Decided(w1) /\ Decided(w2)
           /\ req[w1].count = 1 /\ req[w2].count = 1
           /\ req[w1].item = req[w2].item
           /\ req[w1].variation = req[w2].variation
           /\ \E q \in Covering(req[w1].item, req[w1].variation) :
                 quotas[q].size = 1
           /\ \A c \in DOMAIN carts :
                 carts[c].state \in {"granted", "converted"})
          => {req[w1].results[1], req[w2].results[1]}
               = {"granted", "QuotaExceeded"}

\* C15: a request is granted only if every covering quota has room for the
\* requested count, and is then counted against each of them; if one of them
\* has not, the request ends with QuotaExceeded and nothing is counted
\* anywhere.
C15_AllOrNothing ==
    [][\A w \in Workers :
          LET item == req[w].item
              variation == req[w].variation
              covering == Covering(item, variation)
              enough == \A q \in covering : Available(q) >= req[w].count
          IN  /\ (req[w].pc = "acquire" /\ req'[w].pc = "grant") => enough
              /\ (req[w].pc = "acquire" /\ req'[w].pc = "release")
                 => /\ ~enough
                    /\ req'[w].results = Append(req[w].results,
                                                "QuotaExceeded")
                    /\ lock_cache' = lock_cache
                    /\ order_cache' = order_cache
                    /\ carts' = carts
              /\ (req[w].pc = "grant" /\ req'[w].pc = "release")
                 => /\ enough
                    /\ req'[w].results = Append(req[w].results, "granted")
                    /\ \A q \in Quotas :
                          Cardinality(lock_cache'[q])
                            = Cardinality(lock_cache[q])
                                + (IF q \in covering THEN req[w].count
                                   ELSE 0)
      ]_vars

\* C16: the conversion of a granted cart position is never refused for
\* lack of headroom, and changes the consumed capacity of no quota: the unit
\* leaves the cart locks of every covering quota and enters its orders in
\* the same step.
C16_ConvertKeepsCapacity ==
    [][/\ \A c \in DOMAIN carts :
            (carts[c].state = "granted" /\ now < carts[c].expires)
            => ConvertResult(c) = "converted"
       /\ \A c \in DOMAIN carts :
            (carts[c].state = "granted" /\ carts'[c].state = "converted")
            => /\ \A q \in Quotas :
                     Cardinality(order_cache'[q]) + Cardinality(lock_cache'[q])
                       = Consumed(q)
               /\ \A q \in Covering(carts[c].item, carts[c].variation) :
                     /\ c \in lock_cache[q] /\ c \notin lock_cache'[q]
                     /\ c \notin order_cache[q] /\ c \in order_cache'[q]
      ]_vars

\* C16 witness: a cart position was converted while its quota was full.
C16_Witness ==
    \E c \in DOMAIN carts :
       /\ carts[c].state = "converted"
       /\ \E q \in Counted(c) : Available(q) = 0

\* C17: a granted cart position counts against its quotas until it is
\* converted, cancelled or reaped, also after expires has passed; once
\* expires has passed the reaper eventually removes it, and it is then
\* counted against no quota.
C17_ExpiredEventuallyReleased ==
    /\ [](\A c \in DOMAIN carts :
             carts[c].state = "granted"
             => \A q \in Covering(carts[c].item, carts[c].variation) :
                   c \in lock_cache[q])
    /\ \A c \in CartIds :
          Expired(c) ~> (/\ c \in DOMAIN carts
                         /\ carts[c].state # "granted"
                         /\ Counted(c) = {})

\* C17 witness: a request refused for lack of headroom was made again after
\* the reaper had removed an expired cart position, and was granted.
C17_Witness ==
    /\ \E w \in Workers : req[w].results = <<"QuotaExceeded", "granted">>
    /\ \E c \in DOMAIN carts :
          /\ carts[c].state = "expired"
          /\ \E d \in DOMAIN carts :
                /\ carts[d].state = "granted"
                /\ \E q \in Counted(d) : Available(q) = 0
                /\ Covering(carts[d].item, carts[d].variation)
                     = Covering(carts[c].item, carts[c].variation)

=============================================================================
